---- MODULE Spec2Model ----
(***************************************************************************)
(* Event-to-state reconstruction of the macOS activity tracker.            *)
(*                                                                         *)
(* StreamingEventProcessor (event_processor.py): admission, the bounded    *)
(* event store, the state timeline and the statistics reduced from it.     *)
(* create_states_from_events (mac_activity_advanced_secure.py): the        *)
(* left-to-right fold of the GUI variants.                                 *)
(*                                                                         *)
(* Time is in whole seconds since an arbitrary epoch whose second 0 is a   *)
(* midnight; a calendar date is the number of whole days since the epoch.  *)
(***************************************************************************)
EXTENDS Integers, Sequences, FiniteSets, TLC

(***************************************************************************)
(* Program constants                                                       *)
(***************************************************************************)
SecondsPerDay == 86400
SecondsPerHour == 3600
MinimalLength == 1
NonActiveTolerance == 1
ShutdownGapSeconds == 3600
SleepGapSeconds == 600
MergeTolerance == 60
PauseSleepBoundary == 3600

(***************************************************************************)
(* Bounds of the exploration                                               *)
(***************************************************************************)
MaxInput == 3
MaxStoreInput == 3
MaxBatch == 3
MaxClockBatch == 2
MaxConfigBatch == 2
MaxCallbackBatch == 2
MaxCallbacks == 1
MaxGapBatch == 2
MaxAssertionBatch == 2
MaxScenario == 4
MaxFold == 3
MaxSweep == 3
MaxMerge == 3
MaxLimit == 4
MaxClients == 2
MaxConfigCalls == 2
MaxUpdates == 2
MaxCallers == 2
MaxStarts == 3
MaxCalls == 2
MaxTicks == 1
TickStep == 7200
ClockDrift == 1
MaxStatsCalls == 1

\* The wall clock when the processor is constructed: day 2, 11:06:40.
ConstructionTime == 212800

\* Constructor arguments explored.
RetentionDaysChoices == {1}
MaxEventsChoices == {2}
AdmissionMaxEventsChoices == {2, 3}
StoreMaxEventsChoices == {1, 2}
InactivityThresholdChoices == {30, 60}
DefaultThreshold == 60

\* Timestamps of the incremental exploration: three around the midnight
\* 172800, 570 s, 600 s and 30 s apart.
GeneralTimes == {172700, 173270, 173300}

\* Timestamps of the admission exploration: one older than the retention
\* threshold, one exactly on it and two later ones.
AdmissionTimes == {100000, 126400, 172700, 173270}

\* Timestamps of the event store exploration.
StoreTimes == {172700, 173270}

\* Timestamps of the scenarios, as times of day 2: 02:06:39, 05:06:39,
\* 07:06:39, 07:51:39, 08:36:39 and 11:06:39, one second before the
\* construction time.
ScenarioTimes == {180399, 191199, 198399, 201099, 203799, 212799}

EventType ==
    {"sleep", "wake", "dark_wake", "maintenance_wake", "boot", "reboot",
     "shutdown", "display_on", "display_off", "lid_open", "lid_close",
     "power_button", "assertion_create", "assertion_release", "unknown"}

StateType == {"active", "pause", "sleep", "shutdown", "maintenance", "unknown"}

ParsedEvent(t, ty) == [timestamp |-> t, event_type |-> ty]

EventsOver(times, types) == {ParsedEvent(t, ty) : t \in times, ty \in types}

\* Sequences of length n over the set S.
RECURSIVE SeqsOfLen(_, _)
SeqsOfLen(S, n) ==
    IF n = 0 THEN {<<>>}
    ELSE {Append(s, e) : s \in SeqsOfLen(S, n - 1), e \in S}

GeneralEvents ==
    EventsOver(GeneralTimes, {"wake", "sleep"}) \cup EventsOver({173300}, {"unknown"})
AdmissionEvents == EventsOver(AdmissionTimes, {"wake", "sleep", "unknown"})
StoreEvents ==
    EventsOver(StoreTimes, {"wake", "sleep"}) \cup EventsOver({173270}, {"unknown"})
ScenarioEvents == EventsOver(ScenarioTimes, {"wake", "sleep", "display_on"})

GeneralInputs(maxlen) == UNION {SeqsOfLen(GeneralEvents, n) : n \in 0..maxlen}

StoreInputs(maxlen) == UNION {[1..n -> StoreEvents] : n \in 0..maxlen}

AdmissionInputs(maxlen) == UNION {[1..n -> AdmissionEvents] : n \in 0..maxlen}

ScenarioInputs(maxlen) ==
    UNION {{s \in [1..n -> ScenarioEvents] :
               \A i \in 1..(n - 1) : s[i].timestamp < s[i + 1].timestamp} :
           n \in 1..maxlen}

date(t) == t \div SecondsPerDay

VARIABLES
    now,                  \* the wall clock, datetime.now()
    constructed,          \* the processor exists
    retention_threshold,  \* self.retention_threshold
    max_events,           \* self.max_events, the deque's maxlen
    inactivity_threshold, \* self.inactivity_threshold
    events,               \* self.events
    states,               \* self.states
    event_index,          \* self._event_index: event type -> positions (0-based)
    date_index,           \* self._date_index: date -> positions (0-based)
    stats_cache,          \* self._stats_cache, <<>> for None
    stats_cache_valid,    \* self._stats_cache_valid
    triggered,            \* events handed to _trigger_callbacks, in order
    state_notified,       \* states handed to the state callbacks loop, in order
    state_callbacks,      \* len(self._state_callbacks)
    callback_received,    \* the calls the state callbacks received, in order
    raised,               \* the exception the last call ended with, "" for none
    last_input,           \* the argument of the last processing call
    last_call,            \* the last operation called
    first_call,           \* last_call is the first processing call of the processor
    stats_result,         \* the value the last calculate_statistics returned
    calls, consumed, ticks, stats_calls,  \* exploration counters
    activity_threshold_seconds,  \* self.config.activity_threshold_seconds
    fold_input,           \* the argument of create_states_from_events
    fold_output,          \* what create_states_from_events returned
    fold_pc,              \* "idle", "ready" (argument chosen) or "done" (returned)
    merge_input,          \* the argument of _merge_adjacent_states
    merge_once,           \* what it returned
    merge_twice,          \* what it returned when given merge_once
    merge_pc,             \* "idle", "ready", "once" or "twice"
    limit_input,          \* the events given to the GUI's process_events
    limit_max_events,     \* its max_events argument
    limit_output,         \* what it returned
    processed_count,      \* self.processed_count
    dropped_count,        \* self.dropped_count
    limit_pc,             \* "idle", "ready" or "done"
    _shutdown_event,      \* ThreadSafeAnalysisManager._shutdown_event is set
    _tasks,               \* self._tasks: task id -> the TaskInfo object, None if absent
    _futures,             \* self._futures: task id -> the Future, None if absent
    _callbacks,           \* self._callbacks: task id -> the on_complete callbacks
    task_status,          \* TaskInfo object -> its status, "absent" before it exists
    future_state,         \* Future -> "absent", "pending", "running", "cancelled", "finished"
    wrapper_pc,           \* task_wrapper of a submission -> where it is
    watcher_pc,           \* timeout_handler of a submission -> where it is
    callbacks_started,    \* <<callback, TaskInfo>> -> callback threads started
    client_pc,            \* client thread -> where it is in its call
    client_op,            \* client thread -> the call it makes
    client_outcome,       \* client thread -> "" or how its call ended
    config,               \* ApplicationConfiguration.config: attribute -> value
    _change_history,      \* self._change_history
    config_file,          \* the configuration last saved to config_path
    config_before,        \* config when the last configuration call began
    history_before,       \* _change_history when the last configuration call began
    config_call,          \* the last configuration call and its arguments
    config_result,        \* what it returned, or the exception it raised
    config_calls,         \* exploration counter
    is_analyzing,         \* the GUI manager's is_analyzing
    cancel_requested,     \* its cancel_requested
    error_messages,       \* error messages _run_analysis put on message_queue
    caller_pc,            \* caller thread -> where it is in start_analysis
    start_result,         \* caller thread -> what its last start_analysis returned
    start_calls,          \* exploration counter
    run_pc                \* analysis thread -> where it is in _run_analysis

vars == <<now, constructed, retention_threshold, max_events, inactivity_threshold,
          events, states, event_index, date_index, stats_cache, stats_cache_valid,
          triggered, state_notified, state_callbacks, callback_received, raised,
          last_input, last_call, first_call,
          stats_result, calls, consumed, ticks, stats_calls,
          activity_threshold_seconds, fold_input, fold_output, fold_pc,
          merge_input, merge_once, merge_twice, merge_pc,
          limit_input, limit_max_events, limit_output, processed_count,
          dropped_count, limit_pc,
          _shutdown_event, _tasks, _futures, _callbacks, task_status, future_state,
          wrapper_pc, watcher_pc, callbacks_started, client_pc, client_op,
          client_outcome,
          config, _change_history, config_file, config_before, history_before,
          config_call, config_result, config_calls,
          is_analyzing, cancel_requested, error_messages, caller_pc, start_result,
          start_calls, run_pc>>

processor_vars ==
    <<constructed, retention_threshold, max_events, inactivity_threshold,
      events, states, event_index, date_index, stats_cache, stats_cache_valid,
      triggered, state_notified, state_callbacks, callback_received, raised,
      last_input, last_call, first_call,
      stats_result, calls, consumed, ticks, stats_calls>>

fold_vars == <<activity_threshold_seconds, fold_input, fold_output, fold_pc>>

merge_vars == <<merge_input, merge_once, merge_twice, merge_pc>>

limit_vars == <<limit_input, limit_max_events, limit_output, processed_count,
                dropped_count, limit_pc>>

manager_vars ==
    <<_shutdown_event, _tasks, _futures, _callbacks, task_status, future_state,
      wrapper_pc, watcher_pc, callbacks_started, client_pc, client_op,
      client_outcome>>

configuration_vars ==
    <<config, _change_history, config_file, config_before, history_before,
      config_call, config_result, config_calls>>

guard_vars ==
    <<is_analyzing, cancel_requested, error_messages, caller_pc, start_result,
      start_calls, run_pc>>

\* What the processor's operations, the fold, the merge pass, the GUI's
\* event limit, the task manager, the configuration and the GUI's analysis
\* guard leave alone.
outside_processor ==
    <<fold_vars, merge_vars, limit_vars, manager_vars, configuration_vars, guard_vars>>
outside_fold ==
    <<processor_vars, merge_vars, limit_vars, manager_vars, configuration_vars, guard_vars>>
outside_merge ==
    <<now, processor_vars, fold_vars, limit_vars, manager_vars, configuration_vars,
      guard_vars>>
outside_limit ==
    <<now, processor_vars, fold_vars, merge_vars, manager_vars, configuration_vars,
      guard_vars>>
outside_manager ==
    <<now, processor_vars, fold_vars, merge_vars, limit_vars, configuration_vars,
      guard_vars>>
outside_configuration ==
    <<now, processor_vars, fold_vars, merge_vars, limit_vars, manager_vars, guard_vars>>
outside_guard ==
    <<now, processor_vars, fold_vars, merge_vars, limit_vars, manager_vars,
      configuration_vars>>

(***************************************************************************)
(* SystemState                                                             *)
(***************************************************************************)
ValueError == [error |-> "ValueError"]

\* The dataclass constructor with __post_init__.
SystemState(start, end, type, duration, inferred) ==
    IF end < start
    THEN ValueError
    ELSE [start_time |-> start,
          end_time |-> end,
          state_type |-> type,
          duration_seconds |-> IF duration <= 0 THEN end - start ELSE duration,
          inferred |-> inferred]

\* duration_hours, in units of 1/3600 hour.
duration_hours(s) == s.duration_seconds

(***************************************************************************)
(* Admission and the event store                                           *)
(***************************************************************************)
\* list.insert after every element whose key is not greater: the step of a
\* stable sort.
RECURSIVE InsertByTimestamp(_, _)
InsertByTimestamp(e, s) ==
    IF s = <<>> THEN <<e>>
    ELSE IF e.timestamp < Head(s).timestamp
         THEN <<e>> \o s
         ELSE <<Head(s)>> \o InsertByTimestamp(e, Tail(s))

\* sorted(events, key=lambda e: e.timestamp)
RECURSIVE sorted(_)
sorted(E) ==
    IF E = <<>> THEN <<>>
    ELSE InsertByTimestamp(E[Len(E)], sorted(SubSeq(E, 1, Len(E) - 1)))

\* Mutant: an event exactly on the retention threshold is dropped.
_should_retain_event_strict(e) ==
    /\ e.timestamp > retention_threshold
    /\ e.event_type # "unknown"

_should_retain_event(e) ==
    /\ e.timestamp >= retention_threshold
    /\ e.event_type # "unknown"

\* Mutant: a full store gives up its newest event, not its oldest.
deque_append_evict_newest(d, e) ==
    IF max_events = 0 THEN d
    ELSE IF Len(d) >= max_events
         THEN SubSeq(d, 1, max_events - 1) \o <<e>>
         ELSE Append(d, e)

\* deque(maxlen=max_events).append
deque_append(d, e) ==
    IF max_events = 0 THEN d
    ELSE IF Len(d) >= max_events
         THEN SubSeq(d, Len(d) - max_events + 2, Len(d)) \o <<e>>
         ELSE Append(d, e)

\* p is the processor's mutable part while a call runs.
_add_event(p, e) ==
    LET evs == deque_append(p.events, e)
        event_idx == Len(evs) - 1
    IN [p EXCEPT !.events = evs,
                 !.event_index[e.event_type] = Append(@, event_idx),
                 !.date_index = [d \in DOMAIN @ \cup {date(e.timestamp)} |->
                                    IF d = date(e.timestamp)
                                    THEN (IF d \in DOMAIN @ THEN @[d] ELSE <<>>)
                                         \o <<event_idx>>
                                    ELSE @[d]],
                 !.stats_cache_valid = FALSE]

(***************************************************************************)
(* State analysis                                                          *)
(***************************************************************************)
_determine_state_type(e) ==
    CASE e.event_type \in {"wake", "boot", "reboot", "display_on", "lid_open",
                           "power_button"} -> "active"
      [] e.event_type \in {"sleep", "display_off", "lid_close"} -> "sleep"
      [] e.event_type = "shutdown" -> "shutdown"
      [] e.event_type \in {"dark_wake", "maintenance_wake"} -> "maintenance"
      [] OTHER -> "unknown"

_can_extend_state(state, e) ==
    LET time_diff == e.timestamp - state.end_time
    IN IF state.state_type = "active"
       THEN time_diff <= inactivity_threshold
       ELSE time_diff <= NonActiveTolerance

\* Assigns the fields of the last state; no validation runs on assignment.
_extend_state(p, e) ==
    LET n == Len(p.states)
    IN [p EXCEPT !.states[n].end_time = e.timestamp,
                 !.states[n].duration_seconds = e.timestamp - p.states[n].start_time]

_create_initial_state(p, e) ==
    LET initial_state == SystemState(e.timestamp, e.timestamp + MinimalLength,
                                     _determine_state_type(e), MinimalLength, FALSE)
    IN [p EXCEPT !.states = Append(@, initial_state)]

\* The tiers as they would be with inclusive boundaries.
gap_type_inclusive(gap_seconds) ==
    IF gap_seconds >= ShutdownGapSeconds THEN "shutdown"
    ELSE IF gap_seconds >= SleepGapSeconds THEN "sleep"
    ELSE "pause"

gap_type(gap_seconds) ==
    IF gap_seconds > ShutdownGapSeconds THEN "shutdown"
    ELSE IF gap_seconds > SleepGapSeconds THEN "sleep"
    ELSE "pause"

_create_new_state(p, e, state_type) ==
    LET last_state == p.states[Len(p.states)]
        gap_seconds == e.timestamp - last_state.end_time
        has_gap == p.states # <<>> /\ gap_seconds > inactivity_threshold
        gap_state == SystemState(last_state.end_time, e.timestamp,
                                 gap_type(gap_seconds), gap_seconds, TRUE)
        new_state == SystemState(e.timestamp, e.timestamp + MinimalLength,
                                 state_type, MinimalLength, FALSE)
    IN IF has_gap /\ gap_state = ValueError
       THEN [p EXCEPT !.raised = "ValueError"]
       ELSE [p EXCEPT !.states = (IF has_gap THEN Append(@, gap_state) ELSE @)
                                     \o <<new_state>>,
                      !.state_notified = Append(@, new_state),
                      !.received = @ \o [c \in 1..state_callbacks |->
                                            [callback |-> c, state |-> new_state]]]

_analyze_state_change(p, e) ==
    IF p.states = <<>>
    THEN _create_initial_state(p, e)
    ELSE LET last_state == p.states[Len(p.states)]
             new_state_type == _determine_state_type(e)
         IN IF last_state.state_type = new_state_type /\ _can_extend_state(last_state, e)
            THEN _extend_state(p, e)
            ELSE _create_new_state(p, e, new_state_type)

_trigger_callbacks(p, e) == [p EXCEPT !.triggered = Append(@, e)]

\* One iteration of the loop of process_event_stream; an exception leaves
\* the loop, so nothing after it runs.
stream_step(p, e) ==
    IF p.raised # "" THEN p
    ELSE IF ~_should_retain_event(e) THEN p
    ELSE LET a == _analyze_state_change(_add_event(p, e), e)
         IN IF a.raised # "" THEN a ELSE _trigger_callbacks(a, e)

RECURSIVE stream_loop(_, _)
stream_loop(p, gen) ==
    IF gen = <<>> THEN p
    ELSE stream_loop(stream_step(p, Head(gen)), Tail(gen))

\* The clock is read twice: n1 in the test, n2 in the assignment.
_finalize_states(p, n1, n2) ==
    LET n == Len(p.states)
    IN IF p.states # <<>> /\ p.states[n].end_time < n1
       THEN [p EXCEPT !.states[n].end_time = n2,
                      !.states[n].duration_seconds = n2 - p.states[n].start_time]
       ELSE p

Processor ==
    [events |-> events, states |-> states, event_index |-> event_index,
     date_index |-> date_index, stats_cache_valid |-> stats_cache_valid,
     triggered |-> triggered, state_notified |-> state_notified,
     received |-> callback_received, raised |-> ""]

\* process_event_stream over the generator gen, the clock reading n1 then n2
\* in the finalization; clock is the last value read.
stream_result(gen, n1, n2) ==
    LET p == stream_loop(Processor, gen)
        f == _finalize_states(p, n1, n2)
    IN IF p.raised # "" THEN [result |-> p, clock |-> n1]
       ELSE [result |-> f, clock |-> IF f = p THEN n1 ELSE n2]

(***************************************************************************)
(* Retrieval and statistics                                                *)
(***************************************************************************)
\* [seq[idx] for idx in indices if idx < len(seq)], positions 0-based.
RECURSIVE lookup(_, _)
lookup(seq, indices) ==
    IF indices = <<>> THEN <<>>
    ELSE (IF Head(indices) < Len(seq) THEN <<seq[Head(indices) + 1]>> ELSE <<>>)
         \o lookup(seq, Tail(indices))

get_events_by_type(event_type) == lookup(events, event_index[event_type])

get_events_by_date(d) ==
    lookup(events, IF d \in DOMAIN date_index THEN date_index[d] ELSE <<>>)

get_states_by_type(state_type) ==
    LET keep(s) == s.state_type = state_type
    IN SelectSeq(states, keep)

get_states_for_date(d) ==
    LET start_of_day == d * SecondsPerDay
        end_of_day == start_of_day + SecondsPerDay
        keep(s) == ~(s.end_time <= start_of_day \/ s.start_time >= end_of_day)
    IN SelectSeq(states, keep)

\* sum(s.duration_hours for s in seq if s.state_type == state_type)
RECURSIVE sum_hours(_, _)
sum_hours(seq, state_type) ==
    IF seq = <<>> THEN 0
    ELSE (IF Head(seq).state_type = state_type THEN duration_hours(Head(seq)) ELSE 0)
         + sum_hours(Tail(seq), state_type)

RECURSIVE total_hours(_)
total_hours(seq) ==
    IF seq = <<>> THEN 0 ELSE duration_hours(Head(seq)) + total_hours(Tail(seq))

\* Hours are in units of 1/3600 hour.
_calculate_daily_stats ==
    [d \in DOMAIN date_index |->
        LET day_states == get_states_for_date(d)
        IN [active_hours |-> sum_hours(day_states, "active"),
            pause_hours |-> sum_hours(day_states, "pause"),
            sleep_hours |-> sum_hours(day_states, "sleep"),
            shutdown_hours |-> sum_hours(day_states, "shutdown"),
            maintenance_hours |-> sum_hours(day_states, "maintenance"),
            event_count |-> Len(get_events_by_date(d))]]

\* Mutant: with nothing productive the efficiency is 100, not 0.
_calculate_efficiency_metrics_idle_is_full ==
    LET active_hours == sum_hours(states, "active")
        pause_hours == sum_hours(states, "pause")
        productive_hours == active_hours + pause_hours
    IN [total_hours |-> total_hours(states),
        active_hours |-> active_hours,
        productive_hours |-> productive_hours,
        efficiency_num |-> IF productive_hours > 0 THEN active_hours * 100 ELSE 100,
        efficiency_den |-> IF productive_hours > 0 THEN productive_hours ELSE 1]

\* efficiency_percent is the fraction efficiency_num / efficiency_den.
_calculate_efficiency_metrics ==
    LET active_hours == sum_hours(states, "active")
        pause_hours == sum_hours(states, "pause")
        productive_hours == active_hours + pause_hours
    IN [total_hours |-> total_hours(states),
        active_hours |-> active_hours,
        productive_hours |-> productive_hours,
        efficiency_num |-> IF productive_hours > 0 THEN active_hours * 100 ELSE 0,
        efficiency_den |-> IF productive_hours > 0 THEN productive_hours ELSE 1]

\* first and last are <<>> for None.
_calculate_date_range ==
    IF events = <<>> THEN [first |-> <<>>, last |-> <<>>, days |-> 0]
    ELSE LET stamps == {events[i].timestamp : i \in 1..Len(events)}
             first == CHOOSE t \in stamps : \A u \in stamps : t <= u
             last == CHOOSE t \in stamps : \A u \in stamps : t >= u
         IN [first |-> <<first>>, last |-> <<last>>,
             days |-> date(last) - date(first) + 1]

_calculate_event_distribution ==
    [ty \in {events[i].event_type : i \in 1..Len(events)} |->
        Cardinality({i \in 1..Len(events) : events[i].event_type = ty})]

_calculate_state_distribution ==
    [st \in {states[i].state_type : i \in 1..Len(states)} |-> sum_hours(states, st)]

\* app_activity and wake_reasons are reduced from the events' details, which
\* are not part of the model.
compute_statistics ==
    [event_count |-> Len(events),
     state_count |-> Len(states),
     date_range |-> _calculate_date_range,
     event_type_distribution |-> _calculate_event_distribution,
     state_type_distribution |-> _calculate_state_distribution,
     daily_stats |-> _calculate_daily_stats,
     efficiency_metrics |-> _calculate_efficiency_metrics]

(***************************************************************************)
(* Operations                                                              *)
(***************************************************************************)
EmptyIndex == [ty \in EventType |-> <<>>]
EmptyDateIndex == [d \in {} |-> <<>>]

\* Before __init__ has run.
InitProcessor ==
    /\ now = ConstructionTime
    /\ constructed = FALSE
    /\ retention_threshold = 0
    /\ max_events = 0
    /\ inactivity_threshold = 0
    /\ events = <<>>
    /\ states = <<>>
    /\ event_index = EmptyIndex
    /\ date_index = EmptyDateIndex
    /\ stats_cache = <<>>
    /\ stats_cache_valid = FALSE
    /\ triggered = <<>>
    /\ state_notified = <<>>
    /\ state_callbacks = 0
    /\ callback_received = <<>>
    /\ raised = ""
    /\ last_input = <<>>
    /\ last_call = "none"
    /\ first_call = FALSE
    /\ stats_result = <<>>
    /\ calls = 0
    /\ consumed = 0
    /\ ticks = 0
    /\ stats_calls = 0

\* No fold is under way.
InitFoldIdle ==
    /\ activity_threshold_seconds = DefaultThreshold
    /\ fold_input = <<>>
    /\ fold_output = <<>>
    /\ fold_pc = "idle"

\* No merge pass is under way.
InitMergeIdle ==
    /\ merge_input = <<>>
    /\ merge_once = <<>>
    /\ merge_twice = <<>>
    /\ merge_pc = "idle"

\* The GUI's processor after __init__, nothing given to it.
InitLimitIdle ==
    /\ limit_input = <<>>
    /\ limit_max_events = 0
    /\ limit_output = <<>>
    /\ processed_count = 0
    /\ dropped_count = 0
    /\ limit_pc = "idle"

\* Client threads of the task manager, the task ids they use, and None.
Clients == 1..MaxClients
TaskIds == {"a", "b"}
None == 0

\* ThreadSafeAnalysisManager after __init__; no client has called yet.  A
\* TaskInfo, its Future, its wrapper and its timeout watcher are named after
\* the client whose submit_task makes them.
InitManager ==
    /\ _shutdown_event = FALSE
    /\ _tasks = [t \in TaskIds |-> None]
    /\ _futures = [t \in TaskIds |-> None]
    /\ _callbacks = [t \in TaskIds |-> <<>>]
    /\ task_status = [c \in Clients |-> "absent"]
    /\ future_state = [c \in Clients |-> "absent"]
    /\ wrapper_pc = [c \in Clients |-> "none"]
    /\ watcher_pc = [c \in Clients |-> "none"]
    /\ callbacks_started = [x \in Clients \X Clients |-> 0]
    /\ client_pc = [c \in Clients |-> "idle"]
    /\ client_op = [c \in Clients |-> [name |-> "none", task_id |-> None, force |-> FALSE]]
    /\ client_outcome = [c \in Clients |-> ""]

\* Values of configuration attributes: numbers (int and float alike, in whole
\* units), strings by their number in ConfigStrings, None, and the bound
\* method that the attribute validate holds.
Number(n) == [kind |-> "number", n |-> n]
String(k) == [kind |-> "str", n |-> k]
NoneValue == [kind |-> "None", n |-> 0]
BoundMethod == [kind |-> "method", n |-> 0]
\* validate of another ConfigSchema object, one that holds the defaults.
DefaultBoundMethod == [kind |-> "method", n |-> 1]

\* The attributes of a ConfigSchema object that the model follows: two
\* fields and the method validate, which hasattr finds as well.
SchemaFields == {"analysis_retention_days", "analysis_hourly_rate"}
Attributes == SchemaFields \cup {"validate"}

\* ConfigSchema(): the defaults.
ConfigSchema ==
    [a \in Attributes |->
        CASE a = "analysis_retention_days" -> Number(10)
          [] a = "analysis_hourly_rate" -> Number(250)
          [] a = "validate" -> BoundMethod]

\* ApplicationConfiguration after __init__ with no configuration file
\* present: the defaults, saved, with an empty change history.
InitConfiguration ==
    /\ config = ConfigSchema
    /\ _change_history = <<>>
    /\ config_file = ConfigSchema
    /\ config_before = ConfigSchema
    /\ history_before = <<>>
    /\ config_call = [name |-> "none", updates |-> <<>>]
    /\ config_result = ""
    /\ config_calls = 0

\* The threads that call start_analysis.
Callers == 1..MaxCallers

\* The secure GUI's ThreadSafeAnalysisManager after __init__; nobody has
\* called start_analysis.  Analysis threads are numbered in the order they
\* are started.
InitGuard ==
    /\ is_analyzing = FALSE
    /\ cancel_requested = FALSE
    /\ error_messages = 0
    /\ caller_pc = [c \in Callers |-> "idle"]
    /\ start_result = [c \in Callers |-> ""]
    /\ start_calls = 0
    /\ run_pc = <<>>

Init ==
    /\ InitProcessor
    /\ InitFoldIdle
    /\ InitMergeIdle
    /\ InitLimitIdle
    /\ InitManager
    /\ InitConfiguration
    /\ InitGuard

\* StreamingEventProcessor.__init__; deque(maxlen=...) raises ValueError for
\* a negative maxlen and no processor comes to exist.
Construct(retention_days, maxlen, threshold) ==
    /\ ~constructed
    /\ last_call' = "__init__"
    /\ IF maxlen < 0
       THEN /\ raised' = "ValueError"
            /\ UNCHANGED <<constructed, retention_threshold, max_events,
                           inactivity_threshold, events, states, event_index,
                           date_index, stats_cache, stats_cache_valid,
                           state_callbacks>>
       ELSE /\ constructed' = TRUE
            /\ retention_threshold' = now - retention_days * SecondsPerDay
            /\ max_events' = maxlen
            /\ inactivity_threshold' = threshold
            /\ events' = <<>>
            /\ states' = <<>>
            /\ event_index' = EmptyIndex
            /\ date_index' = EmptyDateIndex
            /\ stats_cache' = <<>>
            /\ stats_cache_valid' = FALSE
            /\ state_callbacks' = 0
            /\ raised' = ""
    /\ UNCHANGED <<now, triggered, state_notified, callback_received, last_input,
                   first_call,
                   stats_result, calls, consumed, ticks, stats_calls>>
    /\ UNCHANGED outside_processor

\* Time passes between calls.
Tick ==
    /\ ticks < MaxTicks
    /\ ticks' = ticks + 1
    /\ now' = now + TickStep
    /\ UNCHANGED <<constructed, retention_threshold, max_events, inactivity_threshold,
                   events, states, event_index, date_index, stats_cache,
                   stats_cache_valid, triggered, state_notified, state_callbacks,
                   callback_received, raised, last_input,
                   last_call, first_call, stats_result, calls, consumed, stats_calls>>
    /\ UNCHANGED outside_processor

\* The effect of process_event_stream(gen) when the clock reads n1, then n2.
Stream(name, input, gen, n1, n2) ==
    LET r == stream_result(gen, n1, n2)
        p == r.result
    IN /\ events' = p.events
       /\ states' = p.states
       /\ event_index' = p.event_index
       /\ date_index' = p.date_index
       /\ stats_cache_valid' = p.stats_cache_valid
       /\ triggered' = p.triggered
       /\ state_notified' = p.state_notified
       /\ callback_received' = p.received
       /\ raised' = p.raised
       /\ now' = r.clock
       /\ last_input' = input
       /\ last_call' = name
       /\ first_call' = (calls = 0)
       /\ calls' = calls + 1
       /\ consumed' = consumed + Len(input)
       /\ UNCHANGED <<constructed, retention_threshold, max_events,
                      inactivity_threshold, stats_cache, stats_result, ticks,
                      stats_calls, state_callbacks>>
       /\ UNCHANGED outside_processor

process_event_stream(gen) ==
    /\ constructed
    /\ calls < MaxCalls
    /\ \E n2 \in {now, now + ClockDrift} :
          Stream("process_event_stream", gen, gen, now, n2)

process_events_batch(E) ==
    /\ constructed
    /\ calls < MaxCalls
    /\ \E n2 \in {now, now + ClockDrift} :
          Stream("process_events_batch", E, sorted(E), now, n2)

calculate_statistics(force_refresh) ==
    /\ constructed
    /\ stats_calls < MaxStatsCalls
    /\ stats_calls' = stats_calls + 1
    /\ last_call' = "calculate_statistics"
    /\ IF stats_cache_valid /\ ~force_refresh
       THEN /\ stats_result' = stats_cache
            /\ UNCHANGED <<stats_cache, stats_cache_valid>>
       ELSE /\ stats_result' = <<compute_statistics>>
            /\ stats_cache' = <<compute_statistics>>
            /\ stats_cache_valid' = TRUE
    /\ UNCHANGED <<now, constructed, retention_threshold, max_events,
                   inactivity_threshold, events, states, event_index, date_index,
                   triggered, state_notified, state_callbacks, callback_received,
                   raised, last_input, first_call, calls,
                   consumed, ticks>>
    /\ UNCHANGED outside_processor

register_state_callback ==
    /\ constructed
    /\ state_callbacks < MaxCallbacks
    /\ state_callbacks' = state_callbacks + 1
    /\ last_call' = "register_state_callback"
    /\ UNCHANGED <<now, constructed, retention_threshold, max_events,
                   inactivity_threshold, events, states, event_index, date_index,
                   stats_cache, stats_cache_valid, triggered, state_notified,
                   callback_received, raised, last_input, first_call, stats_result,
                   calls, consumed, ticks, stats_calls>>
    /\ UNCHANGED outside_processor

Constructor(maxlens, thresholds) ==
    \E r \in RetentionDaysChoices, m \in maxlens, t \in thresholds :
       Construct(r, m, t)

Statistics == \E force_refresh \in BOOLEAN : calculate_statistics(force_refresh)

\* Any number of calls on one processor.
StreamCall == \E gen \in GeneralInputs(MaxInput - consumed) : process_event_stream(gen)
BatchCall == \E E \in GeneralInputs(MaxInput - consumed) : process_events_batch(E)

Next ==
    \/ Constructor(MaxEventsChoices, {DefaultThreshold})
    \/ Tick
    \/ StreamCall
    \/ BatchCall
    \/ Statistics

Spec == Init /\ [][Next]_vars

\* One batch on a fresh processor, then its statistics.
FreshBatchCall ==
    /\ calls = 0
    /\ \E E \in GeneralInputs(MaxBatch) \cup ScenarioInputs(MaxScenario) :
          process_events_batch(E)

NextBatch ==
    \/ Constructor(MaxEventsChoices, InactivityThresholdChoices)
    \/ FreshBatchCall
    \/ Statistics

SpecBatch == Init /\ [][NextBatch]_vars

\* Admission: one batch on a fresh processor, stale and UNKNOWN events among
\* the input.
AdmissionCall ==
    /\ calls = 0
    /\ \E E \in AdmissionInputs(MaxBatch) : process_events_batch(E)

NextAdmission ==
    \/ Constructor(AdmissionMaxEventsChoices, {DefaultThreshold})
    \/ AdmissionCall

SpecAdmission == Init /\ [][NextAdmission]_vars

\* The event store: calls of either kind on one processor with a small store.
StoreStreamCall ==
    \E gen \in StoreInputs(MaxStoreInput - consumed) : process_event_stream(gen)
StoreBatchCall ==
    \E E \in StoreInputs(MaxStoreInput - consumed) : process_events_batch(E)

NextStore ==
    \/ Constructor(StoreMaxEventsChoices, {DefaultThreshold})
    \/ StoreStreamCall
    \/ StoreBatchCall

SpecStore == Init /\ [][NextStore]_vars

\* The clock: time may pass before the construction and between the
\* construction and the one batch.
ClockCall ==
    /\ calls = 0
    /\ \E E \in AdmissionInputs(MaxClockBatch) : process_events_batch(E)

NextClock ==
    \/ Constructor(MaxEventsChoices, {DefaultThreshold})
    \/ Tick
    \/ ClockCall
    \/ Statistics

SpecClock == Init /\ [][NextClock]_vars

\* Callbacks: state callbacks are registered, then one batch is processed.
RegisterBeforeProcessing == calls = 0 /\ register_state_callback

CallbackCall ==
    /\ calls = 0
    /\ \E E \in GeneralInputs(MaxCallbackBatch) : process_events_batch(E)

NextCallbacks ==
    \/ Constructor(MaxEventsChoices, {DefaultThreshold})
    \/ RegisterBeforeProcessing
    \/ CallbackCall

SpecCallbacks == Init /\ [][NextCallbacks]_vars

\* Configurations: constructor arguments inside and outside the documented
\* ranges, then one batch.
ConfigRetentionDaysChoices == {0, 1}
ConfigMaxEventsChoices == {-1, 0, 2}
ConfigThresholdChoices == {0, 60}

ConfigConstructor ==
    \E r \in ConfigRetentionDaysChoices, m \in ConfigMaxEventsChoices,
       t \in ConfigThresholdChoices : Construct(r, m, t)

ConfigCall ==
    /\ calls = 0
    /\ \E E \in AdmissionInputs(MaxConfigBatch) : process_events_batch(E)

NextConfig == ConfigConstructor \/ ConfigCall

SpecConfig == Init /\ [][NextConfig]_vars

\* One batch on a fresh processor whose events lie at the boundaries of the
\* gap tiers: the first state ends at 200001, and the other timestamps are
\* 60, 61, 600, 601, 3600, 3601 and 7199 seconds after that end.
GapTimes == {200000, 200061, 200062, 200601, 200602, 203601, 203602, 207200}
GapEvents == EventsOver(GapTimes, {"sleep", "wake"})
GapInputs(maxlen) == UNION {[1..n -> GapEvents] : n \in 0..maxlen}

GapCall ==
    /\ calls = 0
    /\ \E E \in GapInputs(MaxGapBatch) : process_events_batch(E)

NextGap ==
    \/ Constructor(MaxEventsChoices, InactivityThresholdChoices)
    \/ GapCall

SpecGap == Init /\ [][NextGap]_vars

\* One batch on a fresh processor with power-assertion events among the
\* power events.
AssertionTypes == {"assertion_create", "assertion_release"}
AssertionEvents == EventsOver(GeneralTimes, {"wake", "sleep"} \cup AssertionTypes)
AssertionInputs(maxlen) == UNION {[1..n -> AssertionEvents] : n \in 0..maxlen}

AssertionCall ==
    /\ calls = 0
    /\ \E E \in AssertionInputs(MaxAssertionBatch) : process_events_batch(E)

NextAssertion ==
    \/ Constructor(MaxEventsChoices, {DefaultThreshold})
    \/ AssertionCall

SpecAssertion == Init /\ [][NextAssertion]_vars

(***************************************************************************)
(* create_states_from_events (MacActivityAdvancedSecure)                   *)
(***************************************************************************)
FoldTypes == {"boot", "shutdown", "sleep", "wake", "wake_full", "wake_dark",
              "display_on", "display_off"}

\* Timestamps of the fold's events: 30 s, 100 s, 4000 s and 90400 s after the
\* first.
FoldTimes == {120000, 120030, 120100, 124000, 210400}

FoldEvent(t, ty) == [timestamp |-> t, type |-> ty]

FoldEvents == {FoldEvent(t, ty) : t \in FoldTimes, ty \in FoldTypes}

\* Event lists of length n in non-decreasing order of timestamp.
SortedFoldInputs(n) ==
    {s \in [1..n -> FoldEvents] :
        \A i \in 1..(n - 1) : s[i].timestamp <= s[i + 1].timestamp}

color_of(state) ==
    CASE state = "active" -> "green"
      [] state = "shutdown" -> "black"
      [] state = "sleep" -> "lightgray"
      [] OTHER -> "red"

\* A state dictionary.
FoldState(start, end, state) ==
    [start |-> start, end |-> end, state |-> state, color |-> color_of(state)]

\* last_activity is <<>> for None and <<t>> otherwise.
_determine_state(display_on, last_activity, current_time) ==
    IF ~display_on THEN "inactive"
    ELSE IF last_activity # <<>>
            /\ current_time - last_activity[1] > activity_threshold_seconds
         THEN "inactive"
         ELSE "active"

\* timedelta.seconds: the seconds within the day, the days left out.
timedelta_seconds(delta) == delta % SecondsPerDay

\* The event's own transition; i is the event's 0-based position.
fold_transition(a, i, event) ==
    LET timestamp == event.timestamp
        event_type == event.type
        close(state) == Append(a.states, FoldState(a.current_state_start, timestamp, state))
    IN CASE event_type = "boot" ->
              [a EXCEPT !.states = IF i > 0 THEN close("shutdown") ELSE @,
                        !.system_on = TRUE,
                        !.display_on = TRUE,
                        !.last_activity = <<timestamp>>,
                        !.current_state_start = timestamp]
         [] event_type = "shutdown" ->
              [a EXCEPT !.states =
                            IF a.system_on
                            THEN close(_determine_state(a.display_on, a.last_activity,
                                                        timestamp))
                            ELSE @,
                        !.system_on = FALSE,
                        !.display_on = FALSE,
                        !.current_state_start = timestamp]
         [] event_type = "sleep" ->
              IF a.system_on
              THEN [a EXCEPT !.states = close(_determine_state(a.display_on,
                                                               a.last_activity, timestamp)),
                             !.current_state_start = timestamp,
                             !.display_on = FALSE]
              ELSE a
         [] event_type \in {"wake_full", "wake_dark", "wake"} ->
              LET closing == ~a.display_on /\ a.system_on
              IN [a EXCEPT !.states = IF closing THEN close("sleep") ELSE @,
                           !.current_state_start = IF closing THEN timestamp ELSE @,
                           !.display_on = IF event_type = "wake_full" THEN TRUE ELSE @,
                           !.last_activity = IF event_type = "wake_full"
                                             THEN <<timestamp>> ELSE @]
         [] event_type = "display_on" ->
              LET closing == ~a.display_on /\ a.system_on
                  elapsed == timedelta_seconds(timestamp - a.current_state_start)
              IN [a EXCEPT !.states = IF closing
                                      THEN close(IF elapsed < PauseSleepBoundary
                                                 THEN "inactive" ELSE "sleep")
                                      ELSE @,
                           !.current_state_start = IF closing THEN timestamp ELSE @,
                           !.display_on = TRUE,
                           !.last_activity = <<timestamp>>]
         [] event_type = "display_off" ->
              LET closing == a.display_on /\ a.system_on
              IN [a EXCEPT !.states = IF closing THEN close("active") ELSE @,
                           !.current_state_start = IF closing THEN timestamp ELSE @,
                           !.display_on = FALSE]
         [] OTHER -> a

\* The inactivity check as it would be with the active slice cut from
\* last_activity instead of current_state_start.
fold_inactivity_from_last_activity(a, event) ==
    IF a.display_on /\ a.last_activity # <<>> /\ a.system_on
    THEN LET time_since_activity == event.timestamp - a.last_activity[1]
             active_end == a.last_activity[1] + activity_threshold_seconds
         IN IF time_since_activity > activity_threshold_seconds
            THEN [a EXCEPT !.states = Append(@, FoldState(a.last_activity[1],
                                                         active_end, "active")),
                           !.current_state_start = active_end,
                           !.last_activity = <<>>]
            ELSE a
    ELSE a

\* The inactivity check that follows every event's transition.
fold_inactivity(a, event) ==
    IF a.display_on /\ a.last_activity # <<>> /\ a.system_on
    THEN LET time_since_activity == event.timestamp - a.last_activity[1]
             active_end == a.last_activity[1] + activity_threshold_seconds
         IN IF time_since_activity > activity_threshold_seconds
            THEN [a EXCEPT !.states =
                               IF active_end > a.current_state_start
                               THEN Append(@, FoldState(a.current_state_start,
                                                        active_end, "active"))
                               ELSE @,
                           !.current_state_start =
                               IF active_end > a.current_state_start
                               THEN active_end ELSE @,
                           !.last_activity = <<>>]
            ELSE a
    ELSE a

RECURSIVE fold_loop(_, _, _)
fold_loop(a, evs, i) ==
    IF i >= Len(evs) THEN a
    ELSE fold_loop(fold_inactivity(fold_transition(a, i, evs[i + 1]), evs[i + 1]),
                   evs, i + 1)

\* The closing of the last state; the clock reads n1, n2, n3 in turn.
fold_finish(a, n1, n2, n3) ==
    IF a.current_state_start < n1
    THEN LET final_state ==
                 IF ~a.system_on THEN "shutdown"
                 ELSE IF a.display_on
                      THEN _determine_state(a.display_on, a.last_activity, n2)
                      ELSE "sleep"
         IN [states |-> Append(a.states,
                               FoldState(a.current_state_start, n3, final_state)),
             clock |-> n3]
    ELSE [states |-> a.states, clock |-> n1]

RECURSIVE merge_loop(_, _, _)
merge_loop(merged, current, rest) ==
    IF rest = <<>> THEN Append(merged, current)
    ELSE LET state == Head(rest)
         IN IF state.state = current.state /\ state.start - current.end < MergeTolerance
            THEN merge_loop(merged, [current EXCEPT !.end = state.end], Tail(rest))
            ELSE merge_loop(Append(merged, current), state, Tail(rest))

\* Mutant: a merge closes the merged state, so that at most two states are
\* merged into one.
RECURSIVE merge_loop_pairwise(_, _, _)
merge_loop_pairwise(merged, current, rest) ==
    IF rest = <<>> THEN Append(merged, current)
    ELSE LET state == Head(rest)
             more == Tail(rest)
         IN IF state.state = current.state /\ state.start - current.end < MergeTolerance
            THEN IF more = <<>>
                 THEN Append(merged, [current EXCEPT !.end = state.end])
                 ELSE merge_loop_pairwise(Append(merged, [current EXCEPT !.end = state.end]),
                                          Head(more), Tail(more))
            ELSE merge_loop_pairwise(Append(merged, current), state, more)

_merge_adjacent_states_pairwise(sts) ==
    IF sts = <<>> THEN sts ELSE merge_loop_pairwise(<<>>, Head(sts), Tail(sts))

_merge_adjacent_states(sts) ==
    IF sts = <<>> THEN sts ELSE merge_loop(<<>>, Head(sts), Tail(sts))

\* The returned list and the last value read from the clock.
create_states_from_events(evs, n1, n2, n3) ==
    IF evs = <<>> THEN [states |-> <<>>, clock |-> n1]
    ELSE LET a0 == [states |-> <<>>, system_on |-> FALSE, display_on |-> FALSE,
                    last_activity |-> <<>>,
                    current_state_start |-> evs[1].timestamp]
             f == fold_finish(fold_loop(a0, evs, 0), n1, n2, n3)
         IN [states |-> _merge_adjacent_states(f.states), clock |-> f.clock]

\* An analysis has a time-sorted event list to reconstruct.
InitFold ==
    /\ InitProcessor
    /\ activity_threshold_seconds \in {DefaultThreshold}
    /\ \E n \in 1..MaxFold : fold_input \in SortedFoldInputs(n)
    /\ fold_output = <<>>
    /\ fold_pc = "ready"
    /\ InitMergeIdle
    /\ InitLimitIdle
    /\ InitManager
    /\ InitConfiguration
    /\ InitGuard

CreateStates ==
    /\ fold_pc = "ready"
    /\ \E n2 \in {now, now + ClockDrift} :
       \E n3 \in {n2, now + ClockDrift} :
          LET r == create_states_from_events(fold_input, now, n2, n3)
          IN /\ fold_output' = r.states
             /\ now' = r.clock
    /\ fold_pc' = "done"
    /\ UNCHANGED <<activity_threshold_seconds, fold_input>>
    /\ UNCHANGED outside_fold

NextFold == CreateStates

SpecFold == InitFold /\ [][NextFold]_vars

\* The fold over event lists that exercise the inactivity check: activity is
\* refreshed 30 s after the first event and looked at 100 s after it.
SweepTimes == {120000, 120030, 120100}
SweepEvents ==
    {FoldEvent(t, ty) : t \in SweepTimes,
                        ty \in {"boot", "sleep", "wake", "wake_full", "display_on"}}

InitSweep ==
    /\ InitProcessor
    /\ activity_threshold_seconds \in {DefaultThreshold}
    /\ \E n \in 1..MaxSweep :
          fold_input \in {s \in [1..n -> SweepEvents] :
                             \A i \in 1..(n - 1) : s[i].timestamp <= s[i + 1].timestamp}
    /\ fold_output = <<>>
    /\ fold_pc = "ready"
    /\ InitMergeIdle
    /\ InitLimitIdle
    /\ InitManager
    /\ InitConfiguration
    /\ InitGuard

SpecSweep == InitSweep /\ [][NextFold]_vars

(***************************************************************************)
(* The merge pass on its own                                               *)
(***************************************************************************)
\* Boundaries of the states given to the merge pass: 30 s, 60 s and 90 s
\* apart.
MergeTimes == {120000, 120030, 120090}

MergeStates ==
    {s \in {FoldState(a, b, st) : a \in MergeTimes, b \in MergeTimes,
                                   st \in {"active", "sleep"}} : s.start <= s.end}

\* A state list, in any order, is given to the merge pass.
InitMerge ==
    /\ InitProcessor
    /\ InitFoldIdle
    /\ \E n \in 0..MaxMerge : merge_input \in [1..n -> MergeStates]
    /\ merge_once = <<>>
    /\ merge_twice = <<>>
    /\ merge_pc = "ready"
    /\ InitLimitIdle
    /\ InitManager
    /\ InitConfiguration
    /\ InitGuard

MergeOnce ==
    /\ merge_pc = "ready"
    /\ merge_once' = _merge_adjacent_states(merge_input)
    /\ merge_pc' = "once"
    /\ UNCHANGED <<merge_input, merge_twice>>
    /\ UNCHANGED outside_merge

MergeTwice ==
    /\ merge_pc = "once"
    /\ merge_twice' = _merge_adjacent_states(merge_once)
    /\ merge_pc' = "twice"
    /\ UNCHANGED <<merge_input, merge_once>>
    /\ UNCHANGED outside_merge

NextMerge == MergeOnce \/ MergeTwice

SpecMerge == InitMerge /\ [][NextMerge]_vars

(***************************************************************************)
(* The event limit of the secure GUI variant                               *)
(***************************************************************************)
MemoryLimitMb == 500

LogEvent(t, ty) == [timestamp |-> t, event_type |-> ty]

LimitTimes == {120000, 120030, 120100}
LimitEvents == {LogEvent(t, ty) : t \in LimitTimes, ty \in {"wake", "sleep"}}
LimitMaxEventsChoices == {1, 2}

\* StreamingEventProcessor.process_events of mac_activity_advanced_secure.py:
\* the returned list and the two counters.
process_events(evs, maxlen) ==
    LET memory_limit_bytes == MemoryLimitMb * 1024 * 1024
        over == Len(evs) > maxlen
        cut == IF over THEN SubSeq(evs, 1, maxlen) ELSE evs
        dropped == IF over THEN Len(cut) - maxlen ELSE dropped_count
        estimated_size == Len(cut) * 1000
        squeezed == estimated_size > memory_limit_bytes
        keep_count == (Len(cut) * memory_limit_bytes) \div estimated_size
        kept == IF squeezed THEN SubSeq(cut, 1, keep_count) ELSE cut
    IN [events |-> kept,
        dropped_count |-> IF squeezed THEN dropped + (Len(kept) - keep_count)
                          ELSE dropped,
        processed_count |-> Len(kept)]

\* parse_all has sorted the events by timestamp.
InitLimit ==
    /\ InitProcessor
    /\ InitFoldIdle
    /\ InitMergeIdle
    /\ \E n \in 0..MaxLimit :
          limit_input \in {s \in [1..n -> LimitEvents] :
                              \A i \in 1..(n - 1) : s[i].timestamp <= s[i + 1].timestamp}
    /\ limit_max_events \in LimitMaxEventsChoices
    /\ limit_output = <<>>
    /\ processed_count = 0
    /\ dropped_count = 0
    /\ limit_pc = "ready"
    /\ InitManager
    /\ InitConfiguration
    /\ InitGuard

ProcessEvents ==
    /\ limit_pc = "ready"
    /\ LET r == process_events(limit_input, limit_max_events)
       IN /\ limit_output' = r.events
          /\ processed_count' = r.processed_count
          /\ dropped_count' = r.dropped_count
    /\ limit_pc' = "done"
    /\ UNCHANGED <<limit_input, limit_max_events>>
    /\ UNCHANGED outside_limit

NextLimit == ProcessEvents

SpecLimit == InitLimit /\ [][NextLimit]_vars

(***************************************************************************)
(* ThreadSafeAnalysisManager (thread_manager.py)                           *)
(*                                                                         *)
(* A step is one access to the shared state outside the lock or one block  *)
(* run under self._lock.                                                   *)
(***************************************************************************)
max_workers == 4

\* The shared dictionaries and objects while a block runs.
Manager ==
    [tasks |-> _tasks, futures |-> _futures, callbacks |-> _callbacks,
     task_status |-> task_status, future_state |-> future_state,
     callbacks_started |-> callbacks_started]

\* A callback thread is started for every callback registered for task_id,
\* with task_info as its argument.
_execute_callbacks(m, task_id, task_info) ==
    LET registered(cb) == \E k \in 1..Len(m.callbacks[task_id]) :
                             m.callbacks[task_id][k] = cb
    IN [m EXCEPT !.callbacks_started =
           [x \in DOMAIN @ |-> IF x[2] = task_info /\ registered(x[1])
                                THEN @[x] + 1 ELSE @[x]]]

\* cancel_task: the manager after the call and the value returned.
\* Future.cancel() succeeds on a future no worker has taken.
cancel_task(m, task_id, force) ==
    IF m.tasks[task_id] = None THEN [m |-> m, result |-> FALSE]
    ELSE LET task_info == m.tasks[task_id]
             future == m.futures[task_id]
         IN IF future = None THEN [m |-> m, result |-> FALSE]
            ELSE LET cancelled == m.future_state[future] \in {"pending", "cancelled"}
                     m1 == IF cancelled
                           THEN [m EXCEPT !.future_state[future] = "cancelled"]
                           ELSE m
                 IN IF cancelled \/ force
                    THEN [m |-> _execute_callbacks(
                                   [m1 EXCEPT !.task_status[task_info] = "cancelled",
                                              !.futures[task_id] = None],
                                   task_id, task_info),
                          result |-> TRUE]
                    ELSE [m |-> m1, result |-> FALSE]

\* The loop of shutdown over self._tasks; the calls for different task ids
\* touch different objects, so their order does not show.
RECURSIVE cancel_pending(_, _)
cancel_pending(m, ids) ==
    IF ids = {} THEN m
    ELSE LET task_id == CHOOSE t \in ids : TRUE
             pending == m.tasks[task_id] # None
                        /\ m.task_status[m.tasks[task_id]] = "pending"
         IN cancel_pending(IF pending THEN cancel_task(m, task_id, FALSE).m ELSE m,
                           ids \ {task_id})

ManagerBecomes(m) ==
    /\ _tasks' = m.tasks
    /\ _futures' = m.futures
    /\ _callbacks' = m.callbacks
    /\ task_status' = m.task_status
    /\ future_state' = m.future_state
    /\ callbacks_started' = m.callbacks_started

ClientEnds(c, op, outcome) ==
    /\ client_pc' = [client_pc EXCEPT ![c] = "done"]
    /\ client_op' = [client_op EXCEPT ![c] = op]
    /\ client_outcome' = [client_outcome EXCEPT ![c] = outcome]

ClientGoes(c, op, pc) ==
    /\ client_pc' = [client_pc EXCEPT ![c] = pc]
    /\ client_op' = [client_op EXCEPT ![c] = op]
    /\ UNCHANGED client_outcome

Call(name, task_id, force) == [name |-> name, task_id |-> task_id, force |-> force]

\* submit_task, line 144: the shutdown flag is read, outside the lock.
SubmitTask_CheckShutdown(c) ==
    /\ client_pc[c] = "idle"
    /\ \E task_id \in TaskIds :
          IF _shutdown_event
          THEN ClientEnds(c, Call("submit_task", task_id, FALSE), "RuntimeError")
          ELSE ClientGoes(c, Call("submit_task", task_id, FALSE), "check_duplicate")
    /\ UNCHANGED <<_shutdown_event, _tasks, _futures, _callbacks, task_status,
                   future_state, wrapper_pc, watcher_pc, callbacks_started>>
    /\ UNCHANGED outside_manager

\* submit_task, lines 152-154: the duplicate check, under the lock; the
\* TaskInfo is made after the lock is released.
SubmitTask_CheckDuplicate(c) ==
    /\ client_pc[c] = "check_duplicate"
    /\ IF _tasks[client_op[c].task_id] # None
       THEN /\ ClientEnds(c, client_op[c], "ValueError")
            /\ UNCHANGED task_status
       ELSE /\ ClientGoes(c, client_op[c], "register")
            /\ task_status' = [task_status EXCEPT ![c] = "pending"]
    /\ UNCHANGED <<_shutdown_event, _tasks, _futures, _callbacks, future_state,
                   wrapper_pc, watcher_pc, callbacks_started>>
    /\ UNCHANGED outside_manager

\* submit_task, lines 210-227: registration, under the lock again: the
\* TaskInfo, the callback, the Future and the timeout watcher.
SubmitTask_Register(c) ==
    /\ client_pc[c] = "register"
    /\ LET task_id == client_op[c].task_id
       IN /\ _tasks' = [_tasks EXCEPT ![task_id] = c]
          /\ _callbacks' = [_callbacks EXCEPT ![task_id] = Append(@, c)]
          /\ future_state' = [future_state EXCEPT ![c] = "pending"]
          /\ _futures' = [_futures EXCEPT ![task_id] = c]
          /\ watcher_pc' = [watcher_pc EXCEPT ![c] = "sleeping"]
    /\ ClientEnds(c, client_op[c], "returned")
    /\ UNCHANGED <<_shutdown_event, task_status, wrapper_pc, callbacks_started>>
    /\ UNCHANGED outside_manager

\* shutdown, line 387: the flag is set.
Shutdown_SetFlag(c) ==
    /\ client_pc[c] = "idle"
    /\ _shutdown_event' = TRUE
    /\ ClientGoes(c, Call("shutdown", None, FALSE), "shutdown_locked")
    /\ UNCHANGED <<_tasks, _futures, _callbacks, task_status, future_state,
                   wrapper_pc, watcher_pc, callbacks_started>>
    /\ UNCHANGED outside_manager

\* shutdown, lines 394-401, under the lock: the pending tasks are cancelled,
\* then ThreadPoolExecutor.shutdown is called with a timeout argument it
\* does not have and raises TypeError; the executor stays open.
Shutdown_Locked(c) ==
    /\ client_pc[c] = "shutdown_locked"
    /\ ManagerBecomes(cancel_pending(Manager, TaskIds))
    /\ ClientEnds(c, client_op[c], "TypeError")
    /\ UNCHANGED <<_shutdown_event, wrapper_pc, watcher_pc>>
    /\ UNCHANGED outside_manager

\* cancel_task called by a client.
CancelTask(c) ==
    /\ client_pc[c] = "idle"
    /\ \E task_id \in TaskIds, force \in BOOLEAN :
          LET r == cancel_task(Manager, task_id, force)
          IN /\ ManagerBecomes(r.m)
             /\ ClientEnds(c, Call("cancel_task", task_id, force),
                           IF r.result THEN "True" ELSE "False")
    /\ UNCHANGED <<_shutdown_event, wrapper_pc, watcher_pc>>
    /\ UNCHANGED outside_manager

\* A free worker of the pool takes the future.
WorkerStart(s) ==
    /\ future_state[s] = "pending"
    /\ Cardinality({w \in Clients : future_state[w] = "running"}) < max_workers
    /\ future_state' = [future_state EXCEPT ![s] = "running"]
    /\ wrapper_pc' = [wrapper_pc EXCEPT ![s] = "entered"]
    /\ UNCHANGED <<_shutdown_event, _tasks, _futures, _callbacks, task_status,
                   watcher_pc, callbacks_started, client_pc, client_op,
                   client_outcome>>
    /\ UNCHANGED outside_manager

\* task_wrapper, lines 167-169.
Wrapper_SetRunning(s) ==
    /\ wrapper_pc[s] = "entered"
    /\ task_status' = [task_status EXCEPT ![s] = "running"]
    /\ wrapper_pc' = [wrapper_pc EXCEPT ![s] = "func"]
    /\ UNCHANGED <<_shutdown_event, _tasks, _futures, _callbacks, future_state,
                   watcher_pc, callbacks_started, client_pc, client_op,
                   client_outcome>>
    /\ UNCHANGED outside_manager

\* task_wrapper, lines 181-201: func returns or raises.
Wrapper_Finish(s) ==
    /\ wrapper_pc[s] = "func"
    /\ \E status \in {"completed", "failed"} :
          task_status' = [task_status EXCEPT ![s] = status]
    /\ wrapper_pc' = [wrapper_pc EXCEPT ![s] = "finally"]
    /\ UNCHANGED <<_shutdown_event, _tasks, _futures, _callbacks, future_state,
                   watcher_pc, callbacks_started, client_pc, client_op,
                   client_outcome>>
    /\ UNCHANGED outside_manager

\* task_wrapper, lines 203-205, outside the lock; the future is then done.
Wrapper_Finally(s) ==
    /\ wrapper_pc[s] = "finally"
    /\ LET m == _execute_callbacks(Manager, client_op[s].task_id, s)
       IN ManagerBecomes([m EXCEPT !.future_state[s] = "finished"])
    /\ wrapper_pc' = [wrapper_pc EXCEPT ![s] = "ended"]
    /\ UNCHANGED <<_shutdown_event, watcher_pc, client_pc, client_op, client_outcome>>
    /\ UNCHANGED outside_manager

\* timeout_handler of _start_timeout_watcher, after its sleep.
TimeoutHandler(s) ==
    /\ watcher_pc[s] = "sleeping"
    /\ LET task_id == client_op[s].task_id
           task_info == _tasks[task_id]
       IN IF task_info # None /\ task_status[task_info] = "running"
          THEN LET r == cancel_task(Manager, task_id, TRUE)
               IN ManagerBecomes(IF r.result
                                 THEN [r.m EXCEPT !.task_status[task_info] = "timeout"]
                                 ELSE r.m)
          ELSE ManagerBecomes(Manager)
    /\ watcher_pc' = [watcher_pc EXCEPT ![s] = "done"]
    /\ UNCHANGED <<_shutdown_event, wrapper_pc, client_pc, client_op, client_outcome>>
    /\ UNCHANGED outside_manager

NextManager ==
    \E c \in Clients :
       \/ SubmitTask_CheckShutdown(c)
       \/ SubmitTask_CheckDuplicate(c)
       \/ SubmitTask_Register(c)
       \/ Shutdown_SetFlag(c)
       \/ Shutdown_Locked(c)
       \/ CancelTask(c)
       \/ WorkerStart(c)
       \/ Wrapper_SetRunning(c)
       \/ Wrapper_Finish(c)
       \/ Wrapper_Finally(c)
       \/ TimeoutHandler(c)

SpecManager == Init /\ [][NextManager]_vars

(***************************************************************************)
(* ApplicationConfiguration (config_manager.py)                            *)
(***************************************************************************)
auto_save == TRUE

KeyPaths == {"analysis.retention_days", "analysis.hourly_rate",
             "nonexistent.key", "validate"}

\* key_path.replace('.', '_')
replace_dots(key_path) ==
    CASE key_path = "analysis.retention_days" -> "analysis_retention_days"
      [] key_path = "analysis.hourly_rate" -> "analysis_hourly_rate"
      [] key_path = "nonexistent.key" -> "nonexistent_key"
      [] key_path = "validate" -> "validate"

hasattr(cfg, key) == key \in DOMAIN cfg

\* ConfigSchema.validate as self.config.validate() runs it: "TypeError" when
\* the attribute validate is no longer the method or a compared field is not
\* a number, otherwise whether the list of errors is empty.  The fields the
\* model does not follow keep their valid defaults.  The validate of a
\* default ConfigSchema validates the defaults and finds nothing.
validate(cfg) ==
    IF cfg["validate"] = DefaultBoundMethod THEN "ok"
    ELSE IF cfg["validate"] # BoundMethod THEN "TypeError"
    ELSE IF cfg["analysis_retention_days"].kind # "number" THEN "TypeError"
    ELSE IF cfg["analysis_hourly_rate"].kind # "number" THEN "TypeError"
    ELSE IF \/ cfg["analysis_retention_days"].n < 1
            \/ cfg["analysis_retention_days"].n > 365
            \/ cfg["analysis_hourly_rate"].n < 0
         THEN "errors"
         ELSE "ok"

\* The object while a call runs: the live ConfigSchema, the change history
\* and the saved file.
Configuration == [config |-> config, history |-> _change_history, file |-> config_file]

_save_config(c) == [c EXCEPT !.file = c.config]

HistoryEntry(key_path, old_value, new_value) ==
    [key |-> key_path, old_value |-> old_value, new_value |-> new_value]

\* set: the object after the call and how the call ended.
set(c, key_path, value) ==
    LET key == replace_dots(key_path)
    IN IF ~hasattr(c.config, key) THEN [c |-> c, result |-> "False"]
       ELSE LET old_value == c.config[key]
                assigned == [c EXCEPT !.config[key] = value]
                errors == validate(assigned.config)
            IN CASE errors = "TypeError" -> [c |-> assigned, result |-> "TypeError"]
                 [] errors = "errors" -> [c |-> c, result |-> "False"]
                 [] errors = "ok" ->
                      LET logged == [assigned EXCEPT !.history =
                                        Append(@, HistoryEntry(key_path, old_value, value))]
                      IN [c |-> IF auto_save THEN _save_config(logged) ELSE logged,
                          result |-> "True"]

\* The loop of update over updates.items(), in the dict's order.
RECURSIVE update_loop(_, _)
update_loop(c, items) ==
    IF items = <<>> THEN [c |-> c, result |-> "True"]
    ELSE LET r == set(c, Head(items).key_path, Head(items).value)
         IN IF r.result = "True" THEN update_loop(r.c, Tail(items)) ELSE r

update(c, updates) ==
    LET backup == c.config
        r == update_loop(c, updates)
    IN CASE r.result = "TypeError" -> r
         [] r.result = "False" ->
              LET restored == [r.c EXCEPT !.config = backup]
              IN [c |-> IF auto_save THEN _save_config(restored) ELSE restored,
                  result |-> "False"]
         [] r.result = "True" -> r

\* reset_to_defaults(key_path); key_path = "" stands for None.
reset_to_defaults(c, key_path) ==
    IF key_path # ""
    THEN IF hasattr(ConfigSchema, replace_dots(key_path))
         THEN LET key == replace_dots(key_path)
                  default_value == IF key = "validate" THEN DefaultBoundMethod
                                   ELSE ConfigSchema[key]
                  r == set(c, key_path, default_value)
              IN [c |-> r.c, result |-> IF r.result = "TypeError" THEN "TypeError" ELSE "None"]
         ELSE [c |-> c, result |-> "None"]
    ELSE LET fresh == [c EXCEPT !.config = ConfigSchema]
         IN [c |-> IF auto_save THEN _save_config(fresh) ELSE fresh, result |-> "None"]

\* The loop of import_config over data.items(): setattr for every key the
\* configuration has.
RECURSIVE import_loop(_, _)
import_loop(cfg, items) ==
    IF items = <<>> THEN cfg
    ELSE import_loop(IF hasattr(cfg, Head(items).key_path)
                     THEN [cfg EXCEPT ![Head(items).key_path] = Head(items).value]
                     ELSE cfg,
                     Tail(items))

\* import_config of a file holding data; the keys of a file are attribute
\* names.  An exception of validate is caught by the handler, which returns
\* False and restores nothing.
import_config(c, data) ==
    LET backup == c.config
        loaded == [c EXCEPT !.config = import_loop(c.config, data)]
        errors == validate(loaded.config)
    IN CASE errors = "TypeError" -> [c |-> loaded, result |-> "False"]
         [] errors = "errors" -> [c |-> [c EXCEPT !.config = backup], result |-> "False"]
         [] errors = "ok" -> [c |-> IF auto_save THEN _save_config(loaded) ELSE loaded,
                               result |-> "True"]

ConfigurationBecomes(r, name, updates) ==
    /\ config' = r.c.config
    /\ _change_history' = r.c.history
    /\ config_file' = r.c.file
    /\ config_result' = r.result
    /\ config_before' = config
    /\ history_before' = _change_history
    /\ config_call' = [name |-> name, updates |-> updates]
    /\ config_calls' = config_calls + 1
    /\ UNCHANGED outside_configuration

Item(key_path, value) == [key_path |-> key_path, value |-> value]

\* The values a caller passes: in range for both fields, out of range for
\* retention_days only, out of range for both, and a string.
ConfigValues == {Number(20), Number(1000), Number(-5), String(0)}

\* Dicts of at most maxlen items: distinct keys, in insertion order.
Dicts(keys, maxlen) ==
    {d \in UNION {[1..n -> {Item(k, v) : k \in keys, v \in ConfigValues}] : n \in 1..maxlen} :
        \A i, j \in 1..Len(d) : i # j => d[i].key_path # d[j].key_path}

Set ==
    /\ config_calls < MaxConfigCalls
    /\ \E key_path \in KeyPaths, value \in ConfigValues :
          ConfigurationBecomes(set(Configuration, key_path, value), "set",
                               <<Item(key_path, value)>>)

Update ==
    /\ config_calls < MaxConfigCalls
    /\ \E updates \in Dicts(KeyPaths, MaxUpdates) :
          ConfigurationBecomes(update(Configuration, updates), "update", updates)

ResetToDefaults ==
    /\ config_calls < MaxConfigCalls
    /\ \E key_path \in KeyPaths \cup {""} :
          ConfigurationBecomes(reset_to_defaults(Configuration, key_path),
                               "reset_to_defaults", <<Item(key_path, NoneValue)>>)

ImportConfig ==
    /\ config_calls < MaxConfigCalls
    /\ \E data \in Dicts(Attributes \cup {"nonexistent_key"}, MaxUpdates) :
          ConfigurationBecomes(import_config(Configuration, data), "import_config", data)

NextConfiguration == Set \/ Update \/ ResetToDefaults \/ ImportConfig

SpecConfiguration == Init /\ [][NextConfiguration]_vars

(***************************************************************************)
(* ThreadSafeAnalysisManager of the secure GUI variant                     *)
(* (mac_activity_advanced_secure.py)                                       *)
(*                                                                         *)
(* A step is one block run under self.analysis_lock or one stretch of a    *)
(* thread outside it.                                                      *)
(***************************************************************************)

\* start_analysis, the block under analysis_lock, as it would be without
\* the test of is_analyzing.
StartAnalysis_Locked_unguarded(c) ==
    /\ caller_pc[c] = "idle"
    /\ start_calls < MaxStarts
    /\ start_calls' = start_calls + 1
    /\ is_analyzing' = TRUE
    /\ cancel_requested' = FALSE
    /\ caller_pc' = [caller_pc EXCEPT ![c] = "start_thread"]
    /\ start_result' = [start_result EXCEPT ![c] = ""]
    /\ UNCHANGED <<error_messages, run_pc>>
    /\ UNCHANGED outside_guard

\* start_analysis, lines 493-499: the block under analysis_lock.
StartAnalysis_Locked(c) ==
    /\ caller_pc[c] = "idle"
    /\ start_calls < MaxStarts
    /\ start_calls' = start_calls + 1
    /\ IF is_analyzing
       THEN /\ start_result' = [start_result EXCEPT ![c] = "False"]
            /\ UNCHANGED <<is_analyzing, cancel_requested, caller_pc>>
       ELSE /\ is_analyzing' = TRUE
            /\ cancel_requested' = FALSE
            /\ caller_pc' = [caller_pc EXCEPT ![c] = "start_thread"]
            /\ start_result' = [start_result EXCEPT ![c] = ""]
    /\ UNCHANGED <<error_messages, run_pc>>
    /\ UNCHANGED outside_guard

\* start_analysis, lines 501-507: the thread is made and started.
StartAnalysis_StartThread(c) ==
    /\ caller_pc[c] = "start_thread"
    /\ run_pc' = Append(run_pc, "started")
    /\ caller_pc' = [caller_pc EXCEPT ![c] = "idle"]
    /\ start_result' = [start_result EXCEPT ![c] = "True"]
    /\ UNCHANGED <<is_analyzing, cancel_requested, error_messages, start_calls>>
    /\ UNCHANGED outside_guard

\* _run_analysis, line 512: target_func is entered.
RunAnalysis_Call(t) ==
    /\ run_pc[t] = "started"
    /\ run_pc' = [run_pc EXCEPT ![t] = "running"]
    /\ UNCHANGED <<is_analyzing, cancel_requested, error_messages, caller_pc,
                   start_result, start_calls>>
    /\ UNCHANGED outside_guard

\* _run_analysis, lines 512-518: target_func returns, or raises and the
\* handler queues an error message.
RunAnalysis_FuncEnds(t) ==
    /\ run_pc[t] = "running"
    /\ \/ /\ run_pc' = [run_pc EXCEPT ![t] = "returned"]
          /\ UNCHANGED error_messages
       \/ /\ run_pc' = [run_pc EXCEPT ![t] = "raised"]
          /\ error_messages' = error_messages + 1
    /\ UNCHANGED <<is_analyzing, cancel_requested, caller_pc, start_result, start_calls>>
    /\ UNCHANGED outside_guard

\* _run_analysis, lines 519-521: the finally block, under analysis_lock.
RunAnalysis_Finally(t) ==
    /\ run_pc[t] \in {"returned", "raised"}
    /\ is_analyzing' = FALSE
    /\ run_pc' = [run_pc EXCEPT ![t] = "ended"]
    /\ UNCHANGED <<cancel_requested, error_messages, caller_pc, start_result, start_calls>>
    /\ UNCHANGED outside_guard

\* cancel_analysis
cancel_analysis ==
    /\ ~cancel_requested
    /\ cancel_requested' = TRUE
    /\ UNCHANGED <<is_analyzing, error_messages, caller_pc, start_result,
                   start_calls, run_pc>>
    /\ UNCHANGED outside_guard

AnalysisThreads == 1..MaxStarts

NextGuard ==
    \/ \E c \in Callers : StartAnalysis_Locked(c)
    \/ \E c \in Callers : StartAnalysis_StartThread(c)
    \/ \E t \in DOMAIN run_pc : RunAnalysis_Call(t)
    \/ \E t \in DOMAIN run_pc : RunAnalysis_FuncEnds(t)
    \/ \E t \in DOMAIN run_pc : RunAnalysis_Finally(t)
    \/ cancel_analysis

\* A thread that has reached its finally block takes analysis_lock in the
\* end: every holder of the lock releases it after a bounded block.
SpecGuard ==
    /\ Init
    /\ [][NextGuard]_vars
    /\ \A t \in AnalysisThreads : WF_vars(t \in DOMAIN run_pc /\ RunAnalysis_Finally(t))

(***************************************************************************)
(* Properties                                                              *)
(***************************************************************************)
FreshBatchDone ==
    last_call = "process_events_batch" /\ first_call /\ raised = ""

Last(seq) == seq[Len(seq)]

\* C1: after process_events_batch on a fresh processor, for any admitted
\* events and any now, states is sorted ascending by start_time, every state
\* ends where the next one starts, the first state starts at the earliest
\* admitted event's timestamp and the last state ends at now.
C1_Partition ==
    (FreshBatchDone /\ triggered # <<>>) =>
        /\ states # <<>>
        /\ \A i \in 1..(Len(states) - 1) :
              /\ states[i].start_time <= states[i + 1].start_time
              /\ states[i].end_time = states[i + 1].start_time
        /\ states[1].start_time = triggered[1].timestamp
        /\ Last(states).end_time = now

\* C2: for every time-sorted non-empty event list, create_states_from_events
\* returns a list that is sorted, non-overlapping and gap-free across
\* [first event's timestamp, now]: the first state starts at
\* events[0].timestamp, each state ends where the next one starts and the
\* last state ends at now.
C2_FoldPartition ==
    fold_pc = "done" =>
        /\ fold_output # <<>>
        /\ fold_output[1].start = fold_input[1].timestamp
        /\ \A i \in 1..(Len(fold_output) - 1) :
              /\ fold_output[i].start <= fold_output[i + 1].start
              /\ fold_output[i].end = fold_output[i + 1].start
        /\ Last(fold_output).end = now

\* C3: constructing a SystemState with end_time < start_time raises
\* ValueError, and no sequence of process_events_batch / process_event_stream
\* calls leaves a state in processor.states whose end_time is before its
\* start_time.
C3_EndNotBeforeStart ==
    /\ \A s \in 0..1, e \in 0..1 :
          e < s => SystemState(s, e, "active", 0, FALSE) = ValueError
    /\ \A i \in 1..Len(states) : states[i].end_time >= states[i].start_time

\* Positions of the input E that admission keeps.
RetainedPositions(E) ==
    {i \in 1..Len(E) : E[i].event_type # "unknown"
                       /\ ~(E[i].timestamp < retention_threshold)}

\* The place of E[i] among the positions R in ascending order of timestamp,
\* ties in input order.
RankAmong(E, R, i) ==
    Cardinality({j \in R : \/ E[j].timestamp < E[i].timestamp
                           \/ (E[j].timestamp = E[i].timestamp /\ j < i)}) + 1

\* C4: after process_events_batch(E) on a fresh processor with at most
\* max_events admitted, processor.events is exactly the events of E that are
\* not UNKNOWN and not older than the retention threshold, in ascending order
\* of timestamp with ties in input order; a dropped event creates no state
\* and triggers no callback.
C4_Admission ==
    LET E == last_input
        R == RetainedPositions(E)
        FromAdmitted(s) ==
            \E i \in R : /\ s.start_time = E[i].timestamp
                         /\ s.state_type = _determine_state_type(E[i])
    IN (FreshBatchDone /\ Cardinality(R) <= max_events) =>
          /\ Len(events) = Cardinality(R)
          /\ \A i \in R : events[RankAmong(E, R, i)] = E[i]
          /\ triggered = events
          /\ \A k \in 1..Len(states) : ~states[k].inferred => FromAdmitted(states[k])
          /\ \A k \in 1..Len(state_notified) : FromAdmitted(state_notified[k])
          /\ (R = {} => states = <<>>)

\* C4 witness: a batch of three whose second event is UNKNOWN and whose first
\* event is later than its third: two are admitted, in the other order.
C4_Witness ==
    /\ FreshBatchDone
    /\ Len(last_input) = 3
    /\ last_input[2].event_type = "unknown"
    /\ last_input[1].timestamp > last_input[3].timestamp
    /\ events = <<last_input[3], last_input[1]>>

\* C5: len(processor.events) <= max_events at every point, and once more
\* than max_events events have been admitted, processor.events holds exactly
\* the max_events most recently admitted ones.
C5_MemoryBound ==
    constructed =>
        /\ Len(events) <= max_events
        /\ Len(triggered) > max_events =>
              events = SubSeq(triggered, Len(triggered) - max_events + 1, Len(triggered))

\* C5 witness: three events admitted into a store of two over two calls, the
\* oldest gone.
C5_Witness ==
    /\ max_events = 2
    /\ calls = 2
    /\ Len(triggered) = 3
    /\ triggered[1] # triggered[3]
    /\ events = <<triggered[2], triggered[3]>>

Shape(sts) ==
    [k \in 1..Len(sts) |-> <<sts[k].state_type, sts[k].start_time, sts[k].end_time>>]

ScenarioB ==
    <<ParsedEvent(180399, "wake"), ParsedEvent(191199, "sleep"),
      ParsedEvent(198399, "wake"), ParsedEvent(212799, "sleep")>>

\* C6: a wake followed by a sleep with no admitted event in between is one
\* active state spanning the interval: scenario B with threshold 60 s and now
\* one second after the last sleep gives active, sleep, active, sleep over
\* the four intervals, and wake followed by sleep two hours later reports
\* between 1.9 and 2.1 active hours.
C6_WakeToSleepActive ==
    /\ (FreshBatchDone /\ inactivity_threshold = 60 /\ last_input = ScenarioB
        /\ now = 212800) =>
          Shape(states) = << <<"active", 180399, 191199>>, <<"sleep", 191199, 198399>>,
                             <<"active", 198399, 212799>>, <<"sleep", 212799, 212800>> >>
    /\ (last_call = "calculate_statistics" /\ calls = 1
        /\ last_input = <<ParsedEvent(191199, "wake"), ParsedEvent(198399, "sleep")>>) =>
          LET active_hours == stats_result[1].efficiency_metrics.active_hours
          IN /\ 10 * active_hours > 19 * SecondsPerHour
             /\ 10 * active_hours < 21 * SecondsPerHour

\* C7: create_states_from_events of a single wake event returns exactly one
\* state, active, from the wake's timestamp to now.
C7_SingleWake ==
    (fold_pc = "done" /\ Len(fold_input) = 1
     /\ fold_input[1].type \in {"wake", "wake_full"}) =>
        /\ Len(fold_output) = 1
        /\ fold_output[1].state = "active"
        /\ fold_output[1].start = fold_input[1].timestamp
        /\ fold_output[1].end = now

\* C8: a wake followed more than inactivity_threshold_seconds later by the
\* next event records the silent gap as PAUSE: wake then display_on 90
\* minutes later (threshold 60 s) gives exactly one PAUSE state of more than
\* 60 minutes, wake then sleep 45 minutes later (threshold 30 s) at least one.
C8_SilentGapIsPause ==
    /\ (FreshBatchDone /\ inactivity_threshold = 60
        /\ last_input = <<ParsedEvent(198399, "wake"), ParsedEvent(203799, "display_on")>>) =>
          /\ Len(get_states_by_type("pause")) = 1
          /\ get_states_by_type("pause")[1].duration_seconds > 60 * 60
    /\ (FreshBatchDone /\ inactivity_threshold = 30
        /\ last_input = <<ParsedEvent(198399, "wake"), ParsedEvent(201099, "sleep")>>) =>
          Len(get_states_by_type("pause")) >= 1

\* The hours of the states of one type that start on date d.
StartDateHours(d, state_type) ==
    LET starts_on(s) == date(s.start_time) = d
    IN sum_hours(SelectSeq(states, starts_on), state_type)

\* C9: in the per-day breakdown of calculate_statistics() every state's
\* duration is credited to the date of its start_time only: a day's hours of
\* each type are the durations of the states of that type starting that day.
C9_CreditedToStartDate ==
    (last_call = "calculate_statistics" /\ stats_result # <<>>) =>
        LET daily == stats_result[1].daily_stats
        IN \A d \in DOMAIN daily :
              /\ daily[d].active_hours = StartDateHours(d, "active")
              /\ daily[d].pause_hours = StartDateHours(d, "pause")
              /\ daily[d].sleep_hours = StartDateHours(d, "sleep")
              /\ daily[d].shutdown_hours = StartDateHours(d, "shutdown")
              /\ daily[d].maintenance_hours = StartDateHours(d, "maintenance")

\* C10: the efficiency_percent returned by calculate_statistics() is between
\* 0 and 100 in every reachable state, and 0 when active_hours + pause_hours
\* is 0.
C10_EfficiencyBound ==
    (last_call = "calculate_statistics" /\ stats_result # <<>>) =>
        LET m == stats_result[1].efficiency_metrics
        IN /\ m.efficiency_den > 0
           /\ 0 <= m.efficiency_num
           /\ m.efficiency_num <= 100 * m.efficiency_den
           /\ m.productive_hours = 0 => m.efficiency_num = 0

\* A processor right after __init__.
FreshProcessor ==
    [events |-> <<>>, states |-> <<>>, event_index |-> EmptyIndex,
     date_index |-> EmptyDateIndex, stats_cache_valid |-> FALSE,
     triggered |-> <<>>, state_notified |-> <<>>, received |-> <<>>, raised |-> ""]

\* The reconstruction of the batch E in which every reading of the clock,
\* the constructor's included, gives n.  The clock never runs backwards, so
\* the events not older than n - retention_days are among those the
\* processor's own threshold lets through.
SingleClockReconstruction(E, n) ==
    LET retention_days == CHOOSE r \in RetentionDaysChoices : TRUE
        fresh(e) == e.timestamp >= n - retention_days * SecondsPerDay
    IN _finalize_states(stream_loop(FreshProcessor, SelectSeq(sorted(E), fresh)), n, n)

\* C11: two reconstructions of the same events under the same configuration
\* and the same now give the same events and states (and so the same
\* statistics), whenever the clock was read: what a fresh processor holds
\* after process_events_batch(E) is what the reconstruction holds in which
\* every reading of the clock gives the present now.
C11_Determinism ==
    FreshBatchDone =>
        LET ref == SingleClockReconstruction(last_input, now)
        IN /\ states = ref.states
           /\ events = ref.events

\* C12: the adjacent-merge pass is idempotent: for every state list S,
\* _merge_adjacent_states(_merge_adjacent_states(S)) equals
\* _merge_adjacent_states(S).
C12_MergeIdempotent ==
    merge_pc = "twice" => merge_twice = merge_once

\* C12 witness: three states of one type, each starting less than the
\* tolerance after the one before ends, merged into one by the first pass.
C12_Witness ==
    /\ merge_pc = "twice"
    /\ Len(merge_input) = 3
    /\ merge_input[2].start > merge_input[1].end
    /\ merge_input[3].start >= merge_input[2].end
    /\ Len(merge_once) = 1
    /\ merge_twice = merge_once

\* Statistics of a processor that holds nothing.
ZeroStatistics ==
    [event_count |-> 0,
     state_count |-> 0,
     date_range |-> [first |-> <<>>, last |-> <<>>, days |-> 0],
     event_type_distribution |-> << >>,
     state_type_distribution |-> << >>,
     daily_stats |-> << >>,
     efficiency_metrics |-> [total_hours |-> 0, active_hours |-> 0,
                             productive_hours |-> 0, efficiency_num |-> 0,
                             efficiency_den |-> 1]]

\* C13: process_events_batch([]) raises nothing and leaves events and states
\* empty, and calculate_statistics() then reports zero events, zero states
\* and zero or empty aggregates, efficiency 0 included.
C13_EmptyInput ==
    /\ (FreshBatchDone /\ last_input = <<>>) => (events = <<>> /\ states = <<>>)
    /\ (calls = 1 /\ last_input = <<>>) => raised = ""
    /\ (last_call = "calculate_statistics" /\ calls = 1 /\ last_input = <<>>) =>
          stats_result = <<ZeroStatistics>>

\* C13 witness: the statistics of a processor whose one batch was empty.
C13_Witness ==
    /\ last_call = "calculate_statistics"
    /\ calls = 1
    /\ last_input = <<>>
    /\ stats_result = <<ZeroStatistics>>

\* C14: an inactivity threshold below 1, a retention below one day or a
\* max_events below 1 is rejected by the constructor, so that no event is
\* processed by a processor with such a configuration.  (The clock at
\* construction is ConstructionTime wherever this is checked.)
C14_ConfigurationInRange ==
    (constructed /\ calls > 0 /\ triggered # <<>>) =>
        /\ inactivity_threshold >= 1
        /\ max_events >= 1
        /\ retention_threshold <= ConstructionTime - SecondsPerDay

\* C15: when the time-sorted event list holds more than max_events events,
\* process_events of the secure GUI variant returns exactly max_events events
\* and they are the most recent ones: their timestamps are the max_events
\* last timestamps of the list.
C15_MostRecentKept ==
    (limit_pc = "done" /\ Len(limit_input) > limit_max_events) =>
        /\ Len(limit_output) = limit_max_events
        /\ \A i \in 1..limit_max_events :
              limit_output[i].timestamp =
                 limit_input[Len(limit_input) - limit_max_events + i].timestamp

\* C16: whatever has been admitted, more than max_events included,
\* get_events_by_type(T) returns exactly the events held in processor.events
\* whose type is T, and get_events_by_date(D) exactly those whose timestamp
\* is on the date D.
C16_IndexExact ==
    (constructed /\ raised = "") =>
        /\ \A T \in EventType :
              LET of_type(e) == e.event_type = T
              IN get_events_by_type(T) = SelectSeq(events, of_type)
        /\ \A D \in DOMAIN date_index
                      \cup {date(events[i].timestamp) : i \in 1..Len(events)} :
              LET on_date(e) == date(e.timestamp) = D
              IN get_events_by_date(D) = SelectSeq(events, on_date)

\* C17: the statistics cache is never stale: whenever calculate_statistics()
\* would answer from the cache, the cached value is what
\* calculate_statistics(force_refresh=True) would compute from the present
\* events and states.
C17_CacheFresh ==
    (constructed /\ stats_cache_valid) => stats_cache = <<compute_statistics>>

\* What the state callback c received, in order.
ReceivedBy(c) ==
    LET for_c(r) == r.callback = c
        calls_of_c == SelectSeq(callback_received, for_c)
    IN [k \in 1..Len(calls_of_c) |-> calls_of_c[k].state]

\* C18: a callback registered with register_state_callback is called for
\* every state added to processor.states, the first state and the inferred
\* gap states included, once per state and with that state: after a batch,
\* what a callback registered before it has received is processor.states,
\* state by state (a state is told by its start, type and inferred flag, its
\* end being moved afterwards).
C18_EveryStateNotified ==
    FreshBatchDone =>
        \A c \in 1..state_callbacks :
           LET got == ReceivedBy(c)
           IN /\ Len(got) = Len(states)
              /\ \A k \in 1..Len(got) :
                    /\ got[k].start_time = states[k].start_time
                    /\ got[k].state_type = states[k].state_type
                    /\ got[k].inferred = states[k].inferred

\* C19: once the shutdown flag is set the manager accepts no task: a
\* submit_task that begins then ends with RuntimeError, and, however
\* submit_task and shutdown calls interleave, no step taken with the flag set
\* registers a task in the task table or hands one to the executor.
C19_NoTaskAfterShutdown ==
    [][_shutdown_event =>
          /\ _tasks' = _tasks
          /\ \A s \in Clients : future_state[s] = "absent" => future_state'[s] = "absent"
          /\ \A c \in Clients :
                (client_pc[c] = "idle" /\ client_op'[c].name = "submit_task") =>
                   client_outcome'[c] = "RuntimeError"]_vars

\* C20: task ids are unique: a submit_task that finds its task_id in the
\* task table ends with ValueError, and, however submit_task calls with the
\* same task_id interleave, at most one of them is registered and handed to
\* the executor.
C20_TaskIdUnique ==
    \A t \in TaskIds :
       Cardinality({s \in Clients : /\ client_op[s].name = "submit_task"
                                    /\ client_op[s].task_id = t
                                    /\ future_state[s] # "absent"}) <= 1

\* What the schema accepts for a key on its own: a field of the schema and
\* a number in the field's range.
Acceptable(item) ==
    /\ replace_dots(item.key_path) \in SchemaFields
    /\ item.value.kind = "number"
    /\ item.key_path = "analysis.retention_days" => item.value.n \in 1..365
    /\ item.key_path = "analysis.hourly_rate" => item.value.n >= 0

\* C21: update is all-or-nothing: when a key of the batch is unknown or its
\* value fails validation, update returns False and every configuration
\* value is what it was before the call.
C21_UpdateAllOrNothing ==
    (/\ config_call.name = "update"
     /\ \E i \in 1..Len(config_call.updates) : ~Acceptable(config_call.updates[i]))
    => (config_result = "False" /\ config = config_before)

\* The fold's accumulator before the first event, and around the k-th event
\* of fold_input: before it, after its own transition, after its inactivity
\* check.
FoldStart ==
    [states |-> <<>>, system_on |-> FALSE, display_on |-> FALSE,
     last_activity |-> <<>>, current_state_start |-> fold_input[1].timestamp]

BeforeEvent(k) == fold_loop(FoldStart, SubSeq(fold_input, 1, k - 1), 0)
AfterTransition(k) == fold_transition(BeforeEvent(k), k - 1, fold_input[k])
AfterSweep(k) == fold_inactivity(AfterTransition(k), fold_input[k])

\* The condition of the inactivity sweep at the k-th event.
SweepDue(k) ==
    LET a == AfterTransition(k)
    IN /\ a.display_on
       /\ a.system_on
       /\ a.last_activity # <<>>
       /\ fold_input[k].timestamp - a.last_activity[1] > activity_threshold_seconds

\* C22 as stated: when the sweep is due, the fold appends an active state
\* that starts at last_activity and is exactly threshold seconds long, sets
\* current_state_start to the end of that slice and clears last_activity.
C22_SweepFromLastActivity ==
    fold_pc = "done" =>
       \A k \in 1..Len(fold_input) :
          SweepDue(k) =>
             LET a == AfterTransition(k)
                 b == AfterSweep(k)
                 slice_start == a.last_activity[1]
                 slice_end == slice_start + activity_threshold_seconds
             IN /\ b.states = Append(a.states, FoldState(slice_start, slice_end, "active"))
                /\ b.current_state_start = slice_end
                /\ b.last_activity = <<>>

\* C22, amended: when the sweep is due, the fold appends an active state that
\* starts at current_state_start and ends threshold seconds after
\* last_activity, sets current_state_start to that end and clears
\* last_activity; nothing else of the accumulator changes.
C22_SweepFromStateStart ==
    fold_pc = "done" =>
       \A k \in 1..Len(fold_input) :
          LET a == AfterTransition(k)
              b == AfterSweep(k)
          IN IF SweepDue(k)
             THEN LET slice_end == a.last_activity[1] + activity_threshold_seconds
                  IN /\ b.states = Append(a.states,
                                          FoldState(a.current_state_start, slice_end, "active"))
                     /\ b.current_state_start = slice_end
                     /\ b.last_activity = <<>>
                     /\ b.system_on = a.system_on /\ b.display_on = a.display_on
             ELSE b = a

\* The sweep fired at an event whose open state began before the last
\* activity.
C22_Witness ==
    /\ fold_pc = "done"
    /\ \E k \in 1..Len(fold_input) :
          /\ SweepDue(k)
          /\ AfterTransition(k).current_state_start < AfterTransition(k).last_activity[1]

\* C23: when a display_on event arrives while display_on is false and
\* system_on is true, the interval closed at that event is typed inactive
\* (pause) if and only if its elapsed duration, the event's time minus
\* current_state_start, is under one hour, and sleep otherwise, whatever the
\* length of the elapsed duration.
C23_PauseSleepBoundary ==
    fold_pc = "done" =>
       \A k \in 1..Len(fold_input) :
          LET a == BeforeEvent(k)
              b == AfterTransition(k)
              elapsed == fold_input[k].timestamp - a.current_state_start
          IN (fold_input[k].type = "display_on" /\ ~a.display_on /\ a.system_on) =>
                b.states = Append(a.states,
                                  FoldState(a.current_state_start, fold_input[k].timestamp,
                                            IF elapsed < SecondsPerHour
                                            THEN "inactive" ELSE "sleep"))

\* What a fresh processor holds after the first k events of the batch
\* last_input went through the stream loop.
StreamedPrefix(k) == stream_loop(FreshProcessor, SubSeq(sorted(last_input), 1, k))

\* The tier of a gap of g seconds, as the claim states it.
GapTier(g) ==
    IF g > 3600 THEN "shutdown"
    ELSE IF 600 < g /\ g <= 3600 THEN "sleep"
    ELSE "pause"

NotAssertion(e) == e.event_type \notin AssertionTypes

\* C25: power-assertion events are not acted upon by the reconstructor:
\* admitting one adds to the event store and changes nothing of
\* processor.states, so the states a batch leaves are those its other events
\* leave.
C25_AssertionsNotActedUpon ==
    FreshBatchDone =>
       /\ \A k \in 1..Len(last_input) :
             sorted(last_input)[k].event_type \in AssertionTypes =>
                StreamedPrefix(k).states = StreamedPrefix(k - 1).states
       /\ LET others == stream_loop(FreshProcessor, SelectSeq(sorted(last_input), NotAssertion))
          IN /\ Len(states) = Len(others.states)
             /\ \A i \in 1..Len(states) :
                   /\ states[i].state_type = others.states[i].state_type
                   /\ states[i].start_time = others.states[i].start_time

\* A timeline is well-formed: sorted by start_time, and no state begins
\* before the state in front of it has ended.
WellFormed(sts) ==
    \A i \in 1..(Len(sts) - 1) :
       /\ sts[i].start_time <= sts[i + 1].start_time
       /\ sts[i].end_time <= sts[i + 1].start_time

\* C26: incremental processing keeps the timeline well-formed: a later
\* process_events_batch on a processor whose states are sorted by start_time
\* and do not overlap leaves them sorted and not overlapping, also when the
\* batch holds events older than the previous finalization time.
C26_IncrementalWellFormed ==
    [][(/\ calls >= 1
        /\ calls' = calls + 1
        /\ last_call' = "process_events_batch"
        /\ raised' = ""
        /\ WellFormed(states))
       => WellFormed(states')]_vars

\* The finished statuses of a task.
TerminalStatuses == {"completed", "failed", "cancelled", "timeout"}

\* C27: terminal task statuses are absorbing: once a task's status is
\* completed, failed, cancelled or timeout, no later step (the worker wrapper
\* finishing, cancel_task with or without force, the timeout watcher,
\* shutdown) changes it.
C27_TerminalAbsorbing ==
    [][\A s \in Clients :
          task_status[s] \in TerminalStatuses => task_status'[s] = task_status[s]]_vars

\* C28: the on_complete callback passed to submit_task is started exactly
\* once for each task that reaches a finished status: never more than once,
\* and once when the task is finished and its wrapper is not under way.
C28_CallbackOnce ==
    \A s \in Clients :
       /\ callbacks_started[<<s, s>>] <= 1
       /\ (/\ task_status[s] \in TerminalStatuses
           /\ wrapper_pc[s] \in {"none", "ended"}) => callbacks_started[<<s, s>>] = 1

\* C29: the change history agrees with the live configuration: for every
\* key with an entry in the change history, the new_value of its most recent
\* entry is the current value of that key.
C29_HistoryAgrees ==
    \A i \in 1..Len(_change_history) :
       (\A j \in (i+1)..Len(_change_history) :
            _change_history[j].key # _change_history[i].key)
       => config[replace_dots(_change_history[i].key)] = _change_history[i].new_value

\* An analysis thread that was started and has not left _run_analysis.
Unfinished(t) == run_pc[t] \in {"started", "running", "returned", "raised"}

\* C30: the single-analysis guard: at most one analysis function runs at a
\* time (a start_analysis that finds is_analyzing true returns False and
\* starts no thread), and after an analysis function has ended, by return or
\* by exception, is_analyzing becomes False again.
C30_SingleAnalysis ==
    /\ [](Cardinality({t \in DOMAIN run_pc : Unfinished(t)})
            + Cardinality({c \in Callers : caller_pc[c] = "start_thread"}) <= 1)
    /\ []((\E t \in DOMAIN run_pc : Unfinished(t)) => is_analyzing)
    /\ \A t \in AnalysisThreads :
          (t \in DOMAIN run_pc /\ run_pc[t] \in {"returned", "raised"}) ~> ~is_analyzing

\* A call was refused while an analysis ran, that analysis raised and ended,
\* and a later start_analysis was accepted.
C30_Witness ==
    /\ Len(run_pc) = 2
    /\ run_pc[1] = "ended"
    /\ error_messages >= 1
    /\ \E c \in Callers : start_result[c] = "False"

====
